---- MODULE Spec2Model ----
(***************************************************************************)
(* Model of the nomadai backend: the expiring in-memory cache              *)
(* (backend/services/cache_service.py), the itinerary generation pipeline  *)
(* (backend/services/llm_service.py) and the create-itinerary handler      *)
(* (backend/routers/travel.py).                                            *)
(*                                                                         *)
(* Text is modelled as a sequence of tokens.  A token is one character     *)
(* ("#", " ", ":", "-", ",", ".", "\n", a digit) or one whole word         *)
(* ("Day", "Morning", "SGD", ...): substring search of the code becomes    *)
(* subsequence search over tokens.  Money is counted in cents.             *)
(***************************************************************************)
EXTENDS Integers, Sequences, FiniteSets, TLC

(* ---------------- bounds of the model ---------------- *)
MaxNow == 2
MaxTTL == 2
MaxTasks == 1
MaxSweepTasks == 2
MaxSweepStops == 2
MaxRequests == 2
MaxDays == 1
MaxDuration == 11

(* ---------------- the cache: values and (de)serialisation ------------- *)
None == [kind |-> "None"]

NoTask == 0

Keys == {"k1", "k2"}

TTLs == (0 - 1) .. MaxTTL

FlightObj == [kind |-> "obj", cls |-> "FlightOption", fields |-> [airline |-> "SQ"]]

Values ==
  { [kind |-> "str", s |-> "a"],
    [kind |-> "list", items |-> <<FlightObj>>] }

\* json.dumps(value, default=lambda o: o.__dict__ ...): an object is written
\* as the mapping of its attributes, a list element by element.
RECURSIVE ToJson(_)
ToJson(v) ==
  CASE v.kind = "obj"  -> [kind |-> "dict", fields |-> v.fields]
    [] v.kind = "list" -> [kind |-> "list",
                           items |-> [i \in 1..Len(v.items) |-> ToJson(v.items[i])]]
    [] OTHER           -> v

_serialize(value) == [kind |-> "json", doc |-> ToJson(value)]

\* json.loads: only mappings, sequences and scalars come back.
_deserialize(serialized_value) == serialized_value.doc

(* ---------------- text: tokens and the string operations used ---------- *)
Min(S) == CHOOSE x \in S : \A y \in S : x <= y

DigitTok == <<"0", "1", "2", "3", "4", "5", "6", "7", "8", "9">>

IsDigit(tok) == \E i \in 1..10 : DigitTok[i] = tok

DigitVal(tok) == (CHOOSE i \in 1..10 : DigitTok[i] = tok) - 1

IsSpace(tok) == tok \in {" ", "\n", "\t"}

\* str(n) of a non-negative integer
RECURSIVE Str(_)
Str(n) == IF n < 10 THEN <<DigitTok[n + 1]>> ELSE Str(n \div 10) \o <<DigitTok[(n % 10) + 1]>>

\* str.find, counted from 1; 0 when sub does not occur
Find(s, sub) ==
  LET at == {i \in 1..(Len(s) - Len(sub) + 1) : \A j \in 1..Len(sub) : s[i + j - 1] = sub[j]}
  IN  IF at = {} THEN 0 ELSE Min(at)

\* sub in s
Contains(s, sub) == Find(s, sub) # 0

\* s.split(sub, 1)[0] and s.split(sub, 1)[1], for sub in s
SplitBefore(s, sub) == SubSeq(s, 1, Find(s, sub) - 1)

SplitAfter(s, sub) == SubSeq(s, Find(s, sub) + Len(sub), Len(s))

\* str.replace: every occurrence, left to right
RECURSIVE Replace(_, _, _)
Replace(s, old, new) ==
  IF ~Contains(s, old) THEN s
  ELSE SplitBefore(s, old) \o new \o Replace(SplitAfter(s, old), old, new)

\* str.strip
RECURSIVE LStrip(_)
LStrip(s) == IF s # <<>> /\ IsSpace(Head(s)) THEN LStrip(Tail(s)) ELSE s

RECURSIVE RStrip(_)
RStrip(s) == IF s # <<>> /\ IsSpace(s[Len(s)]) THEN RStrip(SubSeq(s, 1, Len(s) - 1)) ELSE s

Strip(s) == RStrip(LStrip(s))

\* s.split("\n", 1)[0]
FirstLine(s) == IF Contains(s, <<"\n">>) THEN SplitBefore(s, <<"\n">>) ELSE s

StrVal(s) == [kind |-> "str", s |-> s]

(* ---------------- decimal amounts ---------------- *)
\* an amount is a whole part and the digits after the point, trailing zeros dropped
RECURSIVE DropZeros(_)
DropZeros(ds) == IF ds # <<>> /\ ds[Len(ds)] = 0 THEN DropZeros(SubSeq(ds, 1, Len(ds) - 1)) ELSE ds

Amount(whole, frac) == [whole |-> whole, frac |-> DropZeros(frac)]

\* budget * 0.9, for a budget in whole dollars
NinetyPercent(budget) == Amount((budget * 9) \div 10, <<(budget * 9) % 10>>)

\* int(digits)
RECURSIVE DigitsVal(_)
DigitsVal(ds) == IF ds = <<>> THEN 0 ELSE DigitsVal(SubSeq(ds, 1, Len(ds) - 1)) * 10 + DigitVal(ds[Len(ds)])

(* ---------------- LLMPlanningService: the fallback text ---------------- *)
Words(ws) ==
  LET RECURSIVE Join(_)
      Join(i) == IF i > Len(ws) THEN <<>>
                 ELSE IF i = Len(ws) THEN <<ws[i]>>
                 ELSE <<ws[i], " ">> \o Join(i + 1)
  IN  Join(1)

\* f"{budget * 0.9:.2f}"
TwoDecimals(a) ==
  Str(a.whole) \o <<".">> \o
  [i \in 1..2 |-> IF i <= Len(a.frac) THEN DigitTok[a.frac[i] + 1] ELSE "0"]

FallbackDay(day) ==
  <<"#", "#", "#", " ", "Day", " ">> \o Str(day) \o <<"\n">>
  \o <<"-", " ", "Morning", ":", " ">>
  \o Words(<<"Breakfast", "at", "hotel">>) \o <<",", " ">>
  \o Words(<<"explore", "local", "area">>) \o <<"\n">>
  \o <<"-", " ", "Afternoon", ":", " ">>
  \o Words(<<"Visit", "main", "tourist", "attractions">>) \o <<"\n">>
  \o <<"-", " ", "Evening", ":", " ">>
  \o Words(<<"Dinner", "at", "local", "restaurant">>) \o <<"\n", "\n">>

RECURSIVE FallbackDays_short(_, _)
FallbackDays_short(day, duration) ==
  IF day >= duration THEN <<>> ELSE FallbackDay(day) \o FallbackDays_short(day + 1, duration)

RECURSIVE FallbackDays(_, _)
FallbackDays(day, duration) ==
  IF day > duration THEN <<>> ELSE FallbackDay(day) \o FallbackDays(day + 1, duration)

_generate_fallback_itinerary(travel_request) ==
  LET duration == travel_request.duration
      destination == travel_request.destination
  IN  <<"#", " ">> \o Words(<<"Trip", "to", destination>>) \o <<"\n", "\n">>
      \o <<"#", "#", " ", "Overview", "\n">>
      \o <<"A", " ">> \o Str(duration) \o <<"-", "day", " ">>
      \o Words(<<"trip", "to", destination, "from", travel_request.origin>>) \o <<".", "\n", "\n">>
      \o <<"#", "#", " ">> \o Words(<<"Suggested", "Flight">>) \o <<"\n">>
      \o Words(<<"Economy", "class", "flight", "from", travel_request.origin, "to", destination>>)
      \o <<".", "\n", "\n">>
      \o <<"#", "#", " ">> \o Words(<<"Suggested", "Accommodation">>) \o <<"\n">>
      \o Words(<<"Standard", "hotel", "in", destination, "city", "center">>) \o <<".", "\n", "\n">>
      \o <<"#", "#", " ", "Day", "-", "by", "-", "Day", " ", "Itinerary", "\n">>
      \o FallbackDays(1, duration)
      \o <<"#", "#", " ">> \o Words(<<"Estimated", "Budget">>) \o <<"\n">>
      \o Words(<<"Total", "estimated", "cost">>) \o <<":", " ", "SGD", " ">>
      \o TwoDecimals(NinetyPercent(travel_request.budget)) \o <<"\n">>

(* ---------------- LLMPlanningService._parse_itinerary ---------------- *)
day_markers(day) ==
  << <<"#", "#", "#", " ", "Day", " ">> \o Str(day),
     <<"#", "#", " ", "Day", " ">> \o Str(day),
     <<"Day", " ">> \o Str(day) \o <<":">>,
     <<"Day", " ">> \o Str(day) \o <<" ", "-">> >>

day_content_firstVariantOnly(itinerary_text, day, days) ==
  LET markers == day_markers(day)
      found == {i \in {1} : Contains(itinerary_text, markers[i])}
  IN  IF found = {} THEN <<>>
      ELSE
        LET marker == markers[Min(found)]
            rest == SplitAfter(itinerary_text, marker)
            idx == {Find(rest, Replace(markers[i], Str(day), Str(next_day))) - 1 :
                      next_day \in (day + 1)..days, i \in 1..4} \ {0 - 1}
        IN  IF idx # {} THEN SubSeq(rest, 1, Min(idx)) ELSE rest

day_content_nextDayOnly(itinerary_text, day, days) ==
  LET markers == day_markers(day)
      found == {i \in 1..4 : Contains(itinerary_text, markers[i])}
  IN  IF found = {} THEN <<>>
      ELSE
        LET marker == markers[Min(found)]
            rest == SplitAfter(itinerary_text, marker)
            idx == {Find(rest, Replace(markers[i], Str(day), Str(next_day))) - 1 :
                      next_day \in (day + 1)..Min({day + 1, days}), i \in 1..4} \ {0 - 1}
        IN  IF idx # {} THEN SubSeq(rest, 1, Min(idx)) ELSE rest

\* lines 281-299: the content of one day, "" when no marker matches
day_content(itinerary_text, day, days) ==
  LET markers == day_markers(day)
      found == {i \in 1..4 : Contains(itinerary_text, markers[i])}
  IN  IF found = {} THEN <<>>
      ELSE
        LET marker == markers[Min(found)]
            rest == SplitAfter(itinerary_text, marker)
            idx == {Find(rest, Replace(markers[i], Str(day), Str(next_day))) - 1 :
                      next_day \in (day + 1)..days, i \in 1..4} \ {0 - 1}
        IN  IF idx # {} THEN SubSeq(rest, 1, Min(idx)) ELSE rest

part_of_day_untrimmed(content, label) ==
  IF Contains(content, <<label, ":">>)
  THEN StrVal(FirstLine(SplitAfter(content, <<label, ":">>)))
  ELSE None

\* lines 306-316: the rest of the line after a label, None without the label
part_of_day(content, label) ==
  IF Contains(content, <<label, ":">>)
  THEN StrVal(Strip(FirstLine(SplitAfter(content, <<label, ":">>))))
  ELSE None

ItineraryDayActivity(travel_request, day, content, selected_hotel) ==
  [day |-> day,
   date |-> travel_request.depart_date + (day - 1),
   description |-> Strip(content),
   morning |-> part_of_day(content, "Morning"),
   afternoon |-> part_of_day(content, "Afternoon"),
   evening |-> part_of_day(content, "Evening"),
   accommodation |-> IF selected_hotel # None THEN selected_hotel.name ELSE None]

RECURSIVE daily_plan_prepend(_, _, _, _)
daily_plan_prepend(travel_request, itinerary_text, selected_hotel, day) ==
  IF day > travel_request.duration THEN <<>>
  ELSE
    LET content == day_content(itinerary_text, day, travel_request.duration)
    IN  daily_plan_prepend(travel_request, itinerary_text, selected_hotel, day + 1)
        \o (IF content # <<>>
            THEN <<ItineraryDayActivity(travel_request, day, content, selected_hotel)>>
            ELSE <<>>)

\* lines 267-332: one record per day with content, in day order
RECURSIVE daily_plan(_, _, _, _)
daily_plan(travel_request, itinerary_text, selected_hotel, day) ==
  IF day > travel_request.duration THEN <<>>
  ELSE
    LET content == day_content(itinerary_text, day, travel_request.duration)
    IN  (IF content # <<>>
         THEN <<ItineraryDayActivity(travel_request, day, content, selected_hotel)>>
         ELSE <<>>)
        \o daily_plan(travel_request, itinerary_text, selected_hotel, day + 1)

\* re.search(r'SGD\s*([\d,]+(\.\d+)?)', cost_text): group 1, or <<>> without a match
RECURSIVE TakeWhile(_, _, _)
TakeWhile(s, i, toks) ==
  IF i <= Len(s) /\ s[i] \in toks THEN <<s[i]>> \o TakeWhile(s, i + 1, toks) ELSE <<>>

Digits == {DigitTok[i] : i \in 1..10}

Spaces == {" ", "\n", "\t"}

CostMatch(cost_text) ==
  LET NumberAt(i) ==
        LET p == i + 1 + Len(TakeWhile(cost_text, i + 1, Spaces))
            whole == TakeWhile(cost_text, p, Digits \cup {","})
            q == p + Len(whole)
            frac == IF q <= Len(cost_text) /\ cost_text[q] = "."
                    THEN TakeWhile(cost_text, q + 1, Digits) ELSE <<>>
        IN  IF whole = <<>> THEN <<>>
            ELSE IF frac = <<>> THEN whole ELSE whole \o <<".">> \o frac
      at == {i \in 1..Len(cost_text) : cost_text[i] = "SGD" /\ NumberAt(i) # <<>>}
  IN  IF at = {} THEN <<>> ELSE NumberAt(Min(at))

ParseFloat_separatorsKept(group) ==
  LET whole == TakeWhile(group, 1, Digits)
      frac == SubSeq(group, Len(whole) + 2, Len(group))
  IN  IF Contains(group, <<",">>) \/ (whole = <<>> /\ frac = <<>>) THEN None
      ELSE Amount(DigitsVal(whole), [i \in 1..Len(frac) |-> DigitVal(frac[i])])

\* float(group.replace(',', '')): None stands for ValueError
ParseFloat(group) ==
  LET plain == Replace(group, <<",">>, <<>>)
      whole == TakeWhile(plain, 1, Digits)
      frac == SubSeq(plain, Len(whole) + 2, Len(plain))
  IN  IF whole = <<>> /\ frac = <<>> THEN None
      ELSE Amount(DigitsVal(whole), [i \in 1..Len(frac) |-> DigitVal(frac[i])])

\* lines 334-345
total_cost(travel_request, itinerary_text) ==
  LET lower == <<"Total", " ", "cost", ":">>
      upper == <<"Total", " ", "Cost", ":">>
  IN  IF Contains(itinerary_text, lower) \/ Contains(itinerary_text, upper)
      THEN LET cost_text == SplitAfter(itinerary_text,
                                       IF Contains(itinerary_text, lower) THEN lower ELSE upper)
               cost_match == CostMatch(cost_text)
           IN  IF cost_match # <<>> /\ ParseFloat(cost_match) # None
               THEN ParseFloat(cost_match)
               ELSE NinetyPercent(travel_request.budget)
      ELSE NinetyPercent(travel_request.budget)

\* line 348: the text up to the first blank line; a text without one is
\* cut at 200 characters, which none of the texts considered here reaches
summary(itinerary_text) ==
  IF Contains(itinerary_text, <<"\n", "\n">>)
  THEN SplitBefore(itinerary_text, <<"\n", "\n">>)
  ELSE itinerary_text

_parse_itinerary(travel_request, itinerary_text, flights, hotels, pois, request_id) ==
  LET selected_flight == IF flights # <<>> THEN flights[1] ELSE None
      selected_hotel == IF hotels # <<>> THEN hotels[1] ELSE None
  IN  [request_id |-> request_id,
       travel_request |-> travel_request,
       selected_flight |-> selected_flight,
       selected_hotel |-> selected_hotel,
       points_of_interest |-> pois,
       daily_plan |-> daily_plan(travel_request, itinerary_text, selected_hotel, 1),
       summary |-> summary(itinerary_text),
       total_cost |-> total_cost(travel_request, itinerary_text)]

(* ---------------- requests, candidates and model responses ------------- *)
Users == {"ann@example.com", "bob@example.com"}

DepartDate == 10

TravelRequest_unclamped(origin, destination, depart_date, return_date, budget, preferences) ==
  [origin |-> origin, destination |-> destination,
   depart_date |-> depart_date, return_date |-> return_date,
   budget |-> budget, preferences |-> preferences,
   duration |-> (return_date - depart_date) + 1]

\* TravelRequest, with its derived duration property
TravelRequest(origin, destination, depart_date, return_date, budget, preferences) ==
  [origin |-> origin, destination |-> destination,
   depart_date |-> depart_date, return_date |-> return_date,
   budget |-> budget, preferences |-> preferences,
   duration |-> IF (return_date - depart_date) + 1 > 1
                THEN (return_date - depart_date) + 1 ELSE 1]

\* the requests of a caller: trips of minDays (0: the return date lies
\* before the departure date) to maxDays days
Requests(minDays, maxDays, budgets) ==
  {TravelRequest("Singapore", "Tokyo", DepartDate, ret, b, <<"Food">>) :
     ret \in (DepartDate + minDays - 1)..(DepartDate + maxDays - 1), b \in budgets}

Flight(airline, price) == [airline |-> airline, price |-> price]

\* AmadeusService.get_flight_offers: zero or more offers
FlightResults == {<<>>, <<Flight("SQ", 650), Flight("JL", 700)>>}

\* AmadeusService.search_hotels_by_city: zero or more raw hotel mappings
HotelResults ==
  {<<>>, <<[name |-> "Park Hotel", price |-> [total |-> 180], rating |-> 4], [rating |-> 5]>>}

\* GooglePlacesService.get_points_of_interest: zero or more places
PoiResults == {<<>>, <<[name |-> "Senso-ji", category |-> "Culture", rating |-> 5]>>}

\* lines 84-93 of generate_itinerary: raw hotel mapping -> HotelOption
HotelOption(hotel, city) ==
  [name |-> IF "name" \in DOMAIN hotel THEN hotel.name ELSE "Unknown Hotel",
   price_per_night |-> IF "price" \in DOMAIN hotel THEN hotel.price.total ELSE 0,
   stars |-> IF "rating" \in DOMAIN hotel THEN hotel.rating ELSE 3,
   city |-> city]

\* what the model may write: day sections for the days of order, each under
\* the header variant v, followed by a cost line
ResponseDay(day, v, lines) ==
  day_markers(day)[v] \o <<"\n">>
  \o (IF "Morning" \in lines THEN <<"Morning", ":", " ", "Museum", "\n">> ELSE <<>>)
  \o (IF "Afternoon" \in lines THEN <<"Afternoon", ":", " ", "Park", "\n">> ELSE <<>>)
  \o (IF "Evening" \in lines THEN <<"-", " ", "Evening", ":", " ", " ", "Dinner", " ", "\n">> ELSE <<>>)

RECURSIVE ResponseDays(_, _, _)
ResponseDays(order, v, lines) ==
  IF order = <<>> THEN <<>>
  ELSE ResponseDay(Head(order), v, lines) \o ResponseDays(Tail(order), v, lines)

CostLines ==
  [none   |-> <<>>,
   upper  |-> <<"Total", " ", "Cost", ":", " ", "SGD", " ", "1", ",", "2", "5", "0", ".", "5", "0">>,
   lower  |-> <<"Total", " ", "cost", ":", " ", "about", " ", "SGD", "9", "8", "0", " ", "or", " ", "SGD", " ", "5">>,
   usd    |-> <<"Total", " ", "Cost", ":", " ", "USD", " ", "9", "0", "0">>,
   commas |-> <<"Total", " ", "Cost", ":", " ", "SGD", " ", ",", ",">>,
   both   |-> <<"Total", " ", "Cost", ":", " ", "SGD", " ", "7", "0", "0", "\n",
                "Total", " ", "cost", ":", " ", "SGD", "\t", "6", "5", "0", ".", "2", "5">>,
   later  |-> <<"Total", " ", "cost", ":", " ", "SGD", " ", "tbc", ",", " ", "say", " ",
                "SGD", " ", "1", ",", "2", "0", "0">>]

Response(order, v, lines, cost) ==
  <<"Your", " ", "trip", "\n", "\n">> \o ResponseDays(order, v, lines) \o CostLines[cost]

Ascending(d) == [i \in 1..d |-> i]

Without(order, k) ==
  LET RECURSIVE Drop(_)
      Drop(o) == IF o = <<>> THEN <<>>
                 ELSE IF Head(o) = k THEN Drop(Tail(o)) ELSE <<Head(o)>> \o Drop(Tail(o))
  IN  Drop(order)

Descending(d) == [i \in 1..d |-> d + 1 - i]

\* a text cut off by the token limit right after the header of the last day
Truncated(d) ==
  Response(Without(Ascending(d), d), 1, {"Morning"}, "none") \o day_markers(d)[1]

\* day sections whose headers take the four variants in turn
RECURSIVE MixedDays(_, _)
MixedDays(order, lines) ==
  IF order = <<>> THEN <<>>
  ELSE ResponseDay(Head(order), ((Head(order) - 1) % 4) + 1, lines)
       \o MixedDays(Tail(order), lines)

Mixed(order, lines, cost) ==
  <<"Your", " ", "trip", "\n", "\n">> \o MixedDays(order, lines) \o CostLines[cost]

\* a text that names day 1 in the `Day 1 -` form before its `### Day 1` section
Prefaced(d) ==
  <<"Day", " ", "1", " ", "-", " ", "arrival", "\n">>
  \o ResponseDays(Ascending(d), 1, {"Morning", "Evening"}) \o CostLines["none"]

\* a text whose first day has a morning line only and whose other days have
\* an evening line only
Uneven(d) ==
  <<"Your", " ", "trip", "\n", "\n">> \o ResponseDay(1, 1, {"Morning"})
  \o ResponseDays(Tail(Ascending(d)), 1, {"Evening"})

\* response.choices[0].message.content of a successful call, for a trip of d days
Responses(d) ==
  {Response(Ascending(d), v, {"Morning", "Afternoon", "Evening"}, c) :
     v \in 1..4, c \in {"none", "upper"}}
  \cup {Response(Without(Ascending(d), k), 1, {"Morning", "Afternoon"}, c) :
          k \in {1, d}, c \in {"lower", "usd", "commas"}}
  \cup {Response(Descending(d), 3, {"Evening"}, "none")}
  \cup {<<>>, <<" ", "\n">>, <<"No", " ", "plan", " ", "today">>}
  \cup {Truncated(d), Prefaced(d), Uneven(d)}
  \cup {Mixed(Without(Ascending(d), 2), {"Afternoon"}, c) : c \in {"both", "later"}}

FewResponses(d) ==
  {Response(Ascending(d), 1, {"Morning", "Afternoon", "Evening"}, "upper"),
   Response(Without(Ascending(d), 1), 3, {"Morning"}, "none"),
   <<>>}

\* how the call to the model ends: with a text, or with an error inside the
\* try block (the call raises, the response has no choices, its content is None)
ModelFailures == {"exception", "no_choices", "content_none"}

(* ---------------- state ---------------- *)
VARIABLES
  cache,         \* CacheService._cache: key -> entry, or None when absent
  now,           \* time.time()
  cleanup_task,  \* CacheService._cleanup_task: NoTask or a task id
  tasks,         \* the sweep tasks ever created: id -> its state and the stop() calls awaiting it
  lastOp,        \* the cache call made by the last step, if it was one, and what it returned
  written,       \* history: per key, the most recent set not removed since
  pc,            \* where the create-itinerary request in flight stands ("Idle": none)
  frame,         \* the locals of that request; where requests overlap, id -> locals
  response,      \* the answer to the last finished request
  user_itineraries, \* routers/travel.py user_itineraries: email -> list of itineraries
  served,        \* number of requests accepted so far
  accounts,      \* the rows of the users table
  log            \* history: the requests answered so far, in the order they completed

cacheVars == <<cache, now, cleanup_task, tasks, lastOp, written>>

requestVars == <<pc, frame, response, user_itineraries, served>>

storeVars == <<accounts, log>>

vars == <<cache, now, cleanup_task, tasks, lastOp, written,
          pc, frame, response, user_itineraries, served,
          accounts, log>>

NoFrame ==
  [current_user |-> "", travel_request |-> None, flights |-> <<>>, hotels_data |-> <<>>,
   hotels |-> <<>>, pois |-> <<>>, context |-> None, outcome |-> "", itinerary_text |-> <<>>,
   itinerary |-> None, calls |-> <<>>, raised |-> None, store_before |-> <<>>]

NoRequests ==
  /\ pc = "Idle"
  /\ frame = NoFrame
  /\ response = None
  /\ user_itineraries = [u \in {} |-> <<>>]
  /\ served = 0

\* an empty users table, no request answered
NoStore ==
  /\ accounts = {}
  /\ log = <<>>

NoOp == [op |-> "none"]

Entry(value, expires_at) == [value |-> value, expires_at |-> expires_at]

EmptyCache ==
  /\ cache = [k \in Keys |-> None]
  /\ now = 0
  /\ cleanup_task = NoTask
  /\ tasks = <<>>
  /\ lastOp = NoOp
  /\ written = [k \in Keys |-> None]

InitCache == EmptyCache /\ NoRequests /\ NoStore

(* ---------------- cache operations ---------------- *)
GetResult_strict(c, key, t) ==
  IF c[key] = None THEN None
  ELSE IF c[key].expires_at < t THEN None
  ELSE _deserialize(c[key].value)

\* CacheService.get
GetResult(c, key, t) ==
  IF c[key] = None THEN None
  ELSE IF c[key].expires_at <= t THEN None
  ELSE _deserialize(c[key].value)

GetCache_kept(c, key, t) == c

\* CacheService.get lines 71-72: an expired entry is deleted on the way
GetCache(c, key, t) ==
  IF c[key] # None /\ c[key].expires_at <= t
  THEN [c EXCEPT ![key] = None]
  ELSE c

get(key) ==
  /\ cache' = GetCache(cache, key, now)
  /\ lastOp' = [op |-> "get", key |-> key, before |-> cache[key],
                result |-> GetResult(cache, key, now)]
  /\ UNCHANGED <<now, cleanup_task, tasks, written, requestVars, storeVars>>

SetCache_keepLater(c, key, value, expiry, t) ==
  [c EXCEPT ![key] =
     Entry(_serialize(value),
           IF c[key] # None /\ c[key].expires_at > t + expiry
           THEN c[key].expires_at ELSE t + expiry)]

\* CacheService.set
SetCache(c, key, value, expiry, t) ==
  [c EXCEPT ![key] = Entry(_serialize(value), t + expiry)]

\* what a set found under its key: nothing, or an entry, of which the history
\* keeps whether its value differed and whether it was to expire later
Replaced(entry, value, expires_at) ==
  IF entry = None THEN None
  ELSE [other_value |-> entry.value # _serialize(value),
        later |-> entry.expires_at > expires_at]

set(key, value, expiry) ==
  /\ cache' = SetCache(cache, key, value, expiry, now)
  /\ lastOp' = [op |-> "set", key |-> key, value |-> value, expiry |-> expiry,
                before |-> Replaced(cache[key], value, now + expiry)]
  /\ written' = [written EXCEPT ![key] =
                   [value |-> value, readable |-> expiry > 0,
                    expires_at |-> now + expiry]]
  /\ UNCHANGED <<now, cleanup_task, tasks, requestVars, storeVars>>

MarkRemoved(w, ks) ==
  [k \in Keys |-> IF k \in ks THEN None ELSE w[k]]

DeleteCache_all(c, key) == [k \in Keys |-> None]

\* CacheService.delete
DeleteCache(c, key) == IF c[key] # None THEN [c EXCEPT ![key] = None] ELSE c

delete(key) ==
  /\ cache' = DeleteCache(cache, key)
  /\ lastOp' = [op |-> "delete", key |-> key,
                live |-> cache[key] # None /\ cache[key].expires_at > now]
  /\ written' = MarkRemoved(written, {key})
  /\ UNCHANGED <<now, cleanup_task, tasks, requestVars, storeVars>>

\* CacheService.clear
clear ==
  /\ cache' = [k \in Keys |-> None]
  /\ lastOp' = [op |-> "clear"]
  /\ written' = MarkRemoved(written, Keys)
  /\ UNCHANGED <<now, cleanup_task, tasks, requestVars, storeVars>>

CleanupExpired_early(c, current_time) ==
  LET keys_to_remove == {k \in Keys : c[k] # None /\ c[k].expires_at <= current_time + 1}
  IN  [k \in Keys |-> IF k \in keys_to_remove THEN None ELSE c[k]]

CleanupExpired_pastOnly(c, current_time) ==
  LET keys_to_remove == {k \in Keys : c[k] # None /\ c[k].expires_at < current_time}
  IN  [k \in Keys |-> IF k \in keys_to_remove THEN None ELSE c[k]]

\* CacheService._cleanup_expired
CleanupExpired(c, current_time) ==
  LET keys_to_remove == {k \in Keys : c[k] # None /\ c[k].expires_at <= current_time}
  IN  [k \in Keys |-> IF k \in keys_to_remove THEN None ELSE c[k]]

ShouldCreate_always(handle) == TRUE

\* CacheService.start line 24: `if self._cleanup_task is None`
ShouldCreate(handle) == handle = NoTask

\* CacheService.start, with at most limit tasks created in a run
StartTask(limit) ==
  /\ ShouldCreate(cleanup_task) => Len(tasks) < limit
  /\ IF ShouldCreate(cleanup_task)
     THEN /\ tasks' = Append(tasks, [state |-> "sleeping", waiters |-> 0])
          /\ cleanup_task' = Len(tasks) + 1
     ELSE UNCHANGED <<tasks, cleanup_task>>
  /\ UNCHANGED <<cache, now, written, requestVars, storeVars>>
  /\ lastOp' = [op |-> "start", created |-> ShouldCreate(cleanup_task)]

start == StartTask(MaxTasks)

Waiting == LET RECURSIVE Sum(_)
               Sum(i) == IF i = 0 THEN 0 ELSE tasks[i].waiters + Sum(i - 1)
           IN  Sum(Len(tasks))

\* CacheService.stop up to its await: cancel() the task and wait for its end.
\* Awaiting a task that has already ended does not suspend: the handle is
\* dropped in the same step. At most limit calls are suspended at a time.
StopTask(limit) ==
  /\ Waiting < limit
  /\ IF cleanup_task = NoTask
     THEN UNCHANGED <<tasks, cleanup_task>>
     ELSE IF tasks[cleanup_task].state = "done"
     THEN /\ cleanup_task' = NoTask
          /\ UNCHANGED tasks
     ELSE /\ tasks' = [tasks EXCEPT ![cleanup_task] =
                         [state |-> "cancelling", waiters |-> @.waiters + 1]]
          /\ UNCHANGED cleanup_task
  /\ UNCHANGED <<cache, now, written, requestVars, storeVars>>
  /\ lastOp' = [op |-> "stop", task |-> cleanup_task,
                returned |-> (cleanup_task = NoTask \/ tasks[cleanup_task].state = "done")]

\* CacheService.stop after its await: the awaited task has ended.
stop_resume(t) ==
  /\ tasks[t].state = "done"
  /\ tasks[t].waiters > 0
  /\ tasks' = [tasks EXCEPT ![t].waiters = @ - 1]
  /\ cleanup_task' = NoTask
  /\ UNCHANGED <<cache, now, written, requestVars, storeVars>>
  /\ lastOp' = [op |-> "stop_return", task |-> t]

AfterPass_once == "done"

\* CacheService._cleanup_loop line 39: `while True`, the task sleeps and
\* comes back for the next pass
AfterPass == "sleeping"

\* CacheService._cleanup_loop: one pass of a live sweep task, then sleep(60).
\* The loop sleeps on the event loop's timer, the entries expire on
\* time.time(): a pass can fall at any value of now.
_cleanup_loop(t) ==
  /\ tasks[t].state = "sleeping"
  /\ cache' = CleanupExpired(cache, now)
  /\ tasks' = [tasks EXCEPT ![t].state = AfterPass]
  /\ lastOp' = [op |-> "sweep", task |-> t,
                removed |-> {k \in Keys : cache[k] # None /\ cache'[k] = None}]
  /\ UNCHANGED <<now, cleanup_task, written, requestVars, storeVars>>

AfterError_halt == "done"

\* CacheService._cleanup_loop lines 45-47: the error is logged, the task
\* sleeps and comes back for the next pass
AfterError == "sleeping"

\* CacheService._cleanup_loop: a pass that raises, before its deletions
\* (lines 51-56) or after them (lines 61-62)
_cleanup_failed(t) ==
  /\ tasks[t].state = "sleeping"
  /\ \E deleted \in BOOLEAN :
       cache' = IF deleted THEN CleanupExpired(cache, now) ELSE cache
  /\ tasks' = [tasks EXCEPT ![t].state = AfterError]
  /\ lastOp' = [op |-> "sweep_error", task |-> t]
  /\ UNCHANGED <<now, cleanup_task, written, requestVars, storeVars>>

AfterCancel_swallowed == "sleeping"

\* CacheService._cleanup_loop lines 43-44: `except asyncio.CancelledError: break`
AfterCancel == "done"

\* CacheService._cleanup_loop: CancelledError reaches the task in its sleep
\* (or before its first step) and ends it.
_cleanup_cancelled(t) ==
  /\ tasks[t].state = "cancelling"
  /\ tasks' = [tasks EXCEPT ![t].state = AfterCancel]
  /\ UNCHANGED <<cache, now, cleanup_task, written, requestVars, storeVars>>
  /\ lastOp' = NoOp

\* the wall clock advances
Tick ==
  /\ now < MaxNow
  /\ now' = now + 1
  /\ lastOp' = NoOp
  /\ UNCHANGED <<cache, cleanup_task, tasks, written, requestVars, storeVars>>

\* the cache in service, from startup to shutdown: what a stop() does is
\* followed in SpecSweep
NextCache ==
  \/ \E k \in Keys : get(k)
  \/ \E k \in Keys, v \in Values, e \in TTLs : set(k, v, e)
  \/ \E k \in Keys : delete(k)
  \/ clear
  \/ start
  \/ \E t \in 1..Len(tasks) : _cleanup_loop(t)
  \/ \E t \in 1..Len(tasks) : _cleanup_failed(t)
  \/ Tick

Spec == InitCache /\ [][NextCache]_vars

(* ---------------- the sweep task from start to stop ---------------- *)
\* entries written while the sweep task is followed: one value, one ttl
SweepValue == [kind |-> "str", s |-> "a"]

SweepTTL == 1

NextSweep ==
  \/ \E k \in Keys : set(k, SweepValue, SweepTTL)
  \/ StartTask(MaxSweepTasks)
  \/ StopTask(MaxSweepStops)
  \/ \E t \in 1..Len(tasks) : stop_resume(t)
  \/ \E t \in 1..Len(tasks) : _cleanup_loop(t)
  \/ \E t \in 1..Len(tasks) : _cleanup_failed(t)
  \/ \E t \in 1..Len(tasks) : _cleanup_cancelled(t)
  \/ Tick

SpecSweep == InitCache /\ [][NextSweep]_vars

\* the event loop wakes a sleeping task when its timer is due, delivers a
\* cancellation at the task's next step and resumes a stop() that awaits a
\* task once the task has ended; passes are not assumed to fail for ever
FairSpecSweep ==
  /\ SpecSweep
  /\ \A t \in 1..(MaxSweepTasks + 1) :
       /\ WF_vars(t <= Len(tasks) /\ _cleanup_loop(t))
       /\ WF_vars(t <= Len(tasks) /\ _cleanup_cancelled(t))
       /\ WF_vars(t <= Len(tasks) /\ stop_resume(t))

(* ---------------- the create-itinerary request ---------------- *)
HTTPException(status_code, detail) == [status_code |-> status_code, detail |-> detail]

\* any other exception: it carries no HTTP status
Exception(detail) == [status_code |-> 0, detail |-> <<detail>>]

\* routers/travel.py lines 97-102: whatever the body raises is answered as a 500
\* whose detail carries str(e)
Failed(e) == HTTPException(500, <<"Failed to create itinerary: ", e>>)

Ok(body) == [status_code |-> 200, body |-> body]

\* routers/travel.py lines 62-80: a request arrives and TravelRequest is built
create_itinerary(user, travel_req) ==
  /\ pc = "Idle"
  /\ served < MaxRequests
  /\ served' = served + 1
  /\ pc' = "CollectingInputs"
  /\ frame' = [NoFrame EXCEPT !.current_user = user, !.travel_request = travel_req,
                              !.store_before = user_itineraries]
  /\ response' = None
  /\ UNCHANGED <<user_itineraries, cacheVars, storeVars>>

AfterLookup_unchecked(candidates) == "Continue"

\* generate_itinerary line 69 and line 77: an empty candidate list ends the request
AfterLookup(candidates) == IF candidates = <<>> THEN "NotFound" ELSE "Continue"

GenerationCache_aside(c, key, value, t) ==
  SetCache(GetCache(c, key, t), key, value, 3600, t)

\* generate_itinerary lines 52-102: cache_service is handed in (line 56) and
\* no call is made on it, whatever the lookups return
GenerationCache(c, key, value, t) == c

\* generate_itinerary lines 61-73: flight lookup, NotFound when empty
get_flight_offers(flights) ==
  /\ pc = "CollectingInputs"
  /\ frame.calls = <<>>
  /\ cache' = GenerationCache(cache, "k2", [kind |-> "list", items |-> flights], now)
  /\ LET f == [frame EXCEPT !.flights = flights, !.calls = Append(@, "flights")]
         e == HTTPException(404, <<"No flights found from ", frame.travel_request.origin,
                                   " to ", frame.travel_request.destination>>)
     IN  IF AfterLookup(flights) = "NotFound"
         THEN /\ frame' = [f EXCEPT !.raised = e]
              /\ response' = Failed(e)
              /\ pc' = "Idle"
         ELSE /\ frame' = f
              /\ UNCHANGED <<response, pc>>
  /\ UNCHANGED <<user_itineraries, served, now, cleanup_task, tasks, lastOp, written,
                 storeVars>>

\* generate_itinerary lines 75-93: hotel lookup, NotFound when empty, conversion
search_hotels_by_city(hotels_data) ==
  /\ pc = "CollectingInputs"
  /\ frame.calls = <<"flights">>
  /\ LET f == [frame EXCEPT !.hotels_data = hotels_data, !.calls = Append(@, "hotels")]
         e == HTTPException(404, <<"No hotels found in ", frame.travel_request.destination>>)
     IN  IF AfterLookup(hotels_data) = "NotFound"
         THEN /\ frame' = [f EXCEPT !.raised = e]
              /\ response' = Failed(e)
              /\ pc' = "Idle"
         ELSE /\ frame' = [f EXCEPT !.hotels =
                             [i \in 1..Len(hotels_data) |->
                                HotelOption(hotels_data[i], frame.travel_request.destination)]]
              /\ UNCHANGED <<response, pc>>
  /\ UNCHANGED <<user_itineraries, served, cacheVars, storeVars>>

\* generate_itinerary lines 95-102: place lookup, then create_itinerary is entered
get_points_of_interest(pois) ==
  /\ pc = "CollectingInputs"
  /\ frame.calls = <<"flights", "hotels">>
  /\ frame' = [frame EXCEPT !.pois = pois, !.calls = Append(@, "pois")]
  /\ pc' = "BuildingContext"
  /\ UNCHANGED <<response, user_itineraries, served, cacheVars, storeVars>>

\* _prepare_context
Context(travel_request, flights, hotels, pois) ==
  [trip_details |-> [origin |-> travel_request.origin,
                     destination |-> travel_request.destination,
                     duration_days |-> travel_request.duration,
                     start_date |-> travel_request.depart_date,
                     end_date |-> travel_request.return_date,
                     budget |-> travel_request.budget,
                     preferences |-> travel_request.preferences],
   flights |-> flights, hotels |-> hotels, points_of_interest |-> pois]

_prepare_context ==
  /\ pc = "BuildingContext"
  /\ frame' = [frame EXCEPT !.context =
                 Context(frame.travel_request, frame.flights, frame.hotels, frame.pois)]
  /\ pc' = "Generating"
  /\ UNCHANGED <<response, user_itineraries, served, cacheVars, storeVars>>

AfterModelCall_propagate(outcome) == IF outcome = "text" THEN "Parsing" ELSE "Raise"

AfterModelCall_retry(outcome) == IF outcome = "text" THEN "Parsing" ELSE "Generating"

\* _generate_itinerary_text lines 185-213: the text is returned, an error in
\* the try block is caught and answered by the fallback
AfterModelCall(outcome) == IF outcome = "text" THEN "Parsing" ELSE "Fallback"

_generate_itinerary_text(outcome, content) ==
  /\ pc = "Generating"
  /\ LET f == [frame EXCEPT !.outcome = outcome, !.calls = Append(@, "model")]
         after == AfterModelCall(outcome)
     IN  CASE after = "Parsing" ->
                /\ frame' = [f EXCEPT !.itinerary_text = Strip(content)]
                /\ pc' = "Parsing"
                /\ UNCHANGED response
           [] after = "Fallback" ->
                /\ frame' = f
                /\ pc' = "Fallback"
                /\ UNCHANGED response
           [] after = "Generating" ->
                /\ frame' = f
                /\ pc' = "Generating"
                /\ UNCHANGED response
           [] OTHER ->
                /\ frame' = [f EXCEPT !.raised = Exception(outcome)]
                /\ response' = Failed(Exception(outcome))
                /\ pc' = "Idle"
  /\ UNCHANGED <<user_itineraries, served, cacheVars, storeVars>>

AfterFallback_unparsed == "Done"

\* _generate_itinerary_text line 213
AfterFallback == "Parsing"

Fallback ==
  /\ pc = "Fallback"
  /\ frame' = [frame EXCEPT !.itinerary_text = _generate_fallback_itinerary(frame.travel_request)]
  /\ pc' = AfterFallback
  /\ UNCHANGED <<response, user_itineraries, served, cacheVars, storeVars>>

\* create_itinerary lines 118-121; uuid4 gives an identifier not used before
Parsing ==
  /\ pc = "Parsing"
  /\ frame' = [frame EXCEPT !.itinerary =
                 _parse_itinerary(frame.travel_request, frame.itinerary_text,
                                  frame.flights, frame.hotels, frame.pois, served)]
  /\ pc' = "Done"
  /\ UNCHANGED <<response, user_itineraries, served, cacheVars, storeVars>>

\* routers/travel.py lines 91-93
AppendFor(store, email, itinerary) ==
  IF email \in DOMAIN store
  THEN [store EXCEPT ![email] = Append(@, itinerary)]
  ELSE store @@ (email :> <<itinerary>>)

\* routers/travel.py lines 90-95: the itinerary is stored and returned
create_itinerary_return ==
  /\ pc = "Done"
  /\ frame.current_user # ""
  /\ user_itineraries' = AppendFor(user_itineraries, frame.current_user, frame.itinerary)
  /\ response' = Ok(frame.itinerary)
  /\ pc' = "Idle"
  /\ UNCHANGED <<frame, served, cacheVars, storeVars>>

Budgets == {2000}

NextRequest ==
  \/ \E u \in Users, r \in Requests(1, MaxDays, Budgets) : create_itinerary(u, r)
  \/ \E f \in FlightResults : get_flight_offers(f)
  \/ \E h \in HotelResults : search_hotels_by_city(h)
  \/ \E p \in PoiResults : get_points_of_interest(p)
  \/ _prepare_context
  \/ /\ pc = "Generating"
     /\ \E t \in FewResponses(frame.travel_request.duration) : _generate_itinerary_text("text", t)
  \/ \E o \in ModelFailures : _generate_itinerary_text(o, <<>>)
  \/ Fallback
  \/ Parsing
  \/ create_itinerary_return

InitRequest == EmptyCache /\ NoRequests /\ NoStore

SpecRequest == InitRequest /\ [][NextRequest]_vars

\* create_itinerary (llm_service.py lines 113-121) is straight-line code: a
\* stage that has been entered is left for the next one
Advance(stage) ==
  /\ pc = stage
  /\ pc' \in {"Generating", "Fallback", "Parsing", "Done"} \ {stage}

FairSpecRequest ==
  /\ SpecRequest
  /\ \A stage \in {"BuildingContext", "Generating", "Fallback", "Parsing"} :
       WF_pc(Advance(stage))

(* ---------------- a request that finds the cache in use ---------------- *)
\* the cache as the search handlers leave it: one entry still live, one past
\* its expiry and not yet evicted
WarmCache ==
  /\ cache = [k \in Keys |->
               IF k = "k1"
               THEN Entry(_serialize([kind |-> "list", items |-> <<FlightObj>>]), 2)
               ELSE Entry(_serialize([kind |-> "str", s |-> "a"]), 1)]
  /\ now = 1
  /\ cleanup_task = NoTask
  /\ tasks = <<>>
  /\ lastOp = NoOp
  /\ written = [k \in Keys |-> None]

InitGenerate == WarmCache /\ NoRequests /\ NoStore

SpecGenerate == InitGenerate /\ [][NextRequest]_vars

(* ---------------- create_itinerary called on its own ---------------- *)
CreateBudgets == {2000, 1005}

\* create_itinerary(travel_request, flights, hotels, pois) is entered; the
\* budget and the POI list, which the pipeline never relates, vary together
InitCreate ==
  /\ EmptyCache
  /\ NoStore
  /\ pc = "BuildingContext"
  /\ \E r \in Requests(0, MaxDuration, CreateBudgets), p \in PoiResults :
       /\ (p = <<>>) <=> (r.budget = 1005)
       /\ frame = [NoFrame EXCEPT
                    !.travel_request = r,
                    !.flights = <<Flight("SQ", 650)>>,
                    !.hotels = <<HotelOption([name |-> "Park Hotel"], r.destination)>>,
                    !.pois = p]
  /\ response = None
  /\ user_itineraries = [u \in {} |-> <<>>]
  /\ served = 0

NextCreate ==
  \/ _prepare_context
  \/ /\ pc = "Generating"
     /\ \E t \in Responses(frame.travel_request.duration) : _generate_itinerary_text("text", t)
  \/ \E o \in ModelFailures : _generate_itinerary_text(o, <<>>)
  \/ Fallback
  \/ Parsing

SpecCreate == InitCreate /\ [][NextCreate]_vars

(* ---------------- accounts and the per-user itinerary store ------------ *)
MaxStoreRequests == 4

Usernames == {"ann", "bob"}

\* routers/auth.py lines 61-67: the row of a new account; its email is empty
UserInDB(username) == [username |-> username, email |-> ""]

EmailTaken_unenforced(rows, email) == FALSE

\* models/user.py line 12: the email column is unique, so the commit of a row
\* whose email another row holds raises IntegrityError
EmailTaken(rows, email) == \E a \in rows : a.email = email

Row(rows, username) == CHOOSE a \in rows : a.username = username

\* utils/auth.py get_current_user: the row named by the token's subject, or 401
get_current_user(username) ==
  IF \E a \in accounts : a.username = username
  THEN Row(accounts, username)
  ELSE None

Unauthorized == HTTPException(401, <<"Could not validate credentials">>)

\* the history of answered requests
Answered(id, username, kind, answer, item) ==
  Append(log, [id |-> id, account |-> username, kind |-> kind,
               status_code |-> answer.status_code, item |-> item])

\* a request whose token names no account is answered 401 before its handler runs
Rejected(username, kind) ==
  /\ response' = Unauthorized
  /\ log' = Answered(served + 1, username, kind, Unauthorized, None)
  /\ UNCHANGED <<user_itineraries, accounts, frame>>

\* routers/auth.py register_user
register_user(username) ==
  /\ served < MaxStoreRequests
  /\ served' = served + 1
  /\ LET existing_user == \E a \in accounts : a.username = username
         answer ==
           IF existing_user
           THEN HTTPException(500, <<"Failed to register user: ",
                                     HTTPException(400, <<"Username already registered">>)>>)
           ELSE IF EmailTaken(accounts, UserInDB(username).email)
           THEN HTTPException(400, <<"Username already exists">>)
           ELSE Ok(UserInDB(username))
     IN  /\ accounts' = IF answer.status_code = 200
                        THEN accounts \cup {UserInDB(username)} ELSE accounts
         /\ response' = answer
         /\ log' = Answered(served + 1, username, "register", answer, None)
  /\ UNCHANGED <<user_itineraries, pc, frame, cacheVars>>

\* the Itinerary of a request, as far as the store is concerned
Itinerary(request_id, travel_request) ==
  [request_id |-> request_id, travel_request |-> travel_request]

StoreRequest(destination) ==
  TravelRequest("Singapore", destination, DepartDate, DepartDate, 2000, <<"Food">>)

NoInflight == [i \in {} |-> None]

\* routers/travel.py lines 51-83: the handler runs up to its await of
\* generate_itinerary
create_itinerary_await(username, travel_req) ==
  /\ served < MaxStoreRequests
  /\ served' = served + 1
  /\ IF get_current_user(username) = None
     THEN Rejected(username, "create")
     ELSE /\ frame' = (served + 1 :> [current_user |-> get_current_user(username),
                                      travel_request |-> travel_req,
                                      store_before |-> user_itineraries]) @@ frame
          /\ UNCHANGED <<response, log, user_itineraries, accounts>>
  /\ UNCHANGED <<pc, cacheVars>>

StoreRead_atEntry(current, at_entry) == at_entry

\* routers/travel.py lines 91-93 read the mapping when they run, not when the
\* request came in
StoreRead(current, at_entry) == current

\* what generate_itinerary gives back to the handler: an Itinerary, or an exception
GenerationOutcomes == {"itinerary", "not_found", "error"}

\* routers/travel.py lines 83-102: generate_itinerary returns or raises, and
\* the handler stores and answers
create_itinerary_resume(id, outcome) ==
  /\ id \in DOMAIN frame
  /\ LET req == frame[id]
         itinerary == Itinerary(id, req.travel_request)
         answer ==
           CASE outcome = "itinerary" -> Ok(itinerary)
             [] outcome = "not_found" -> Failed(HTTPException(404, <<"No flights found">>))
             [] OTHER                 -> Failed(Exception("error"))
     IN  /\ user_itineraries' =
              IF outcome = "itinerary"
              THEN AppendFor(StoreRead(user_itineraries, req.store_before),
                             req.current_user.email, itinerary)
              ELSE user_itineraries
         /\ response' = answer
         /\ log' = Answered(id, req.current_user.username, "create", answer,
                            IF outcome = "itinerary" THEN itinerary ELSE None)
  /\ frame' = [i \in DOMAIN frame \ {id} |-> frame[i]]
  /\ UNCHANGED <<accounts, served, pc, cacheVars>>

\* routers/travel.py lines 264-269: whatever the body raises is answered as a 500
SaveFailed(e) == HTTPException(500, <<"Failed to save itinerary: ", e>>)

\* routers/travel.py save_itinerary
save_itinerary(username, itinerary) ==
  /\ served < MaxStoreRequests
  /\ served' = served + 1
  /\ LET current_user == get_current_user(username)
         answer ==
           IF itinerary.travel_request.destination = ""
           THEN SaveFailed(HTTPException(400,
                             <<"Invalid itinerary data: missing destination">>))
           ELSE Ok(itinerary)
     IN  IF current_user = None
         THEN Rejected(username, "save")
         ELSE /\ user_itineraries' =
                   IF answer.status_code = 200
                   THEN AppendFor(user_itineraries, current_user.email, itinerary)
                   ELSE user_itineraries
              /\ response' = answer
              /\ log' = Answered(served + 1, username, "save", answer, itinerary)
              /\ UNCHANGED <<accounts, frame>>
  /\ UNCHANGED <<pc, cacheVars>>

\* user_itineraries.get(email, [])
StoreGet(store, email) == IF email \in DOMAIN store THEN store[email] ELSE <<>>

\* routers/travel.py get_itineraries
get_itineraries(username) ==
  /\ served < MaxStoreRequests
  /\ served' = served + 1
  /\ LET current_user == get_current_user(username)
     IN  IF current_user = None
         THEN Rejected(username, "get")
         ELSE /\ response' = Ok(StoreGet(user_itineraries, current_user.email))
              /\ log' = Answered(served + 1, username, "get", Ok(<<>>), None)
              /\ UNCHANGED <<user_itineraries, accounts, frame>>
  /\ UNCHANGED <<pc, cacheVars>>

\* the itineraries a client submits: a complete one and one without destination
SavedItineraries == {Itinerary(0, StoreRequest(d)) : d \in {"Tokyo", ""}}

NextStore ==
  \/ \E u \in Usernames : register_user(u)
  \/ \E u \in Usernames : create_itinerary_await(u, StoreRequest("Tokyo"))
  \/ \E id \in DOMAIN frame, o \in GenerationOutcomes : create_itinerary_resume(id, o)
  \/ \E u \in Usernames, i \in SavedItineraries : save_itinerary(u, i)
  \/ \E u \in Usernames : get_itineraries(u)

\* no request is suspended in its handler
InitStore ==
  /\ EmptyCache
  /\ NoStore
  /\ pc = "Idle"
  /\ frame = NoInflight
  /\ response = None
  /\ user_itineraries = [u \in {} |-> <<>>]
  /\ served = 0

SpecStore == InitStore /\ [][NextStore]_vars

(* ---------------- the search handlers: cache-aside ---------------- *)
\* one query per handler, under the key the handler composes for it
SearchKeys ==
  {"flights:Singapore:Tokyo:2025-06-10:2025-06-12",
   "hotels:Tokyo:2025-06-10:2025-06-12",
   "pois:Tokyo:Food"}

\* what an adapter call gives: a list of options, which may be empty
AdapterResults == {[kind |-> "list", items |-> <<>>],
                   [kind |-> "list", items |-> <<FlightObj>>]}

\* an adapter call that raises
AdapterRaises == [kind |-> "raise"]

\* `if cached_result:` in the handlers: None and an empty list are both false
Truthy(v) == v # None /\ ~(v.kind = "list" /\ Len(v.items) = 0)

SearchFailed(what, e) == HTTPException(500, <<"Error searching ", what, ": ", e>>)

\* the body common to search_flights, search_hotels and
\* search_points_of_interest: look up, else call the adapter and store; no
\* call of the handler suspends, since get and set do not
CacheAside(what, cache_key, expiry, outcome) ==
  LET cached_result == GetResult(cache, cache_key, now)
      looked_up == GetCache(cache, cache_key, now)
  IN  /\ IF Truthy(cached_result)
         THEN /\ cache' = looked_up
              /\ response' = Ok(cached_result)
         ELSE IF outcome = AdapterRaises
         THEN /\ cache' = looked_up
              /\ response' = SearchFailed(what, Exception("adapter"))
         ELSE /\ cache' = SetCache(looked_up, cache_key, outcome, expiry, now)
              /\ response' = Ok(outcome)
      /\ lastOp' = [op |-> "search", key |-> cache_key, what |-> what,
                    adapter_calls |-> IF Truthy(cached_result) THEN 0 ELSE 1,
                    outcome |-> IF Truthy(cached_result) THEN None ELSE outcome]
      /\ UNCHANGED <<now, cleanup_task, tasks, written, pc, frame, user_itineraries,
                     served, storeVars>>

\* routers/travel.py search_flights
search_flights(outcome) ==
  CacheAside("flights", "flights:Singapore:Tokyo:2025-06-10:2025-06-12", 3600, outcome)

\* routers/travel.py search_hotels
search_hotels(outcome) ==
  CacheAside("hotels", "hotels:Tokyo:2025-06-10:2025-06-12", 3600, outcome)

\* routers/travel.py search_points_of_interest
search_points_of_interest(outcome) ==
  CacheAside("points of interest", "pois:Tokyo:Food", 3600 * 24, outcome)

\* the instants at which requests arrive: around the two expiry delays
SearchTimes == {0, 3599, 3600, 86399, 86400}

\* the wall clock advances to a later one of these instants
Elapse(t) ==
  /\ t > now
  /\ now' = t
  /\ lastOp' = NoOp
  /\ UNCHANGED <<cache, cleanup_task, tasks, written, requestVars, storeVars>>

NextSearch ==
  \/ \E o \in AdapterResults \cup {AdapterRaises} : search_flights(o)
  \/ \E o \in AdapterResults \cup {AdapterRaises} : search_hotels(o)
  \/ \E o \in AdapterResults \cup {AdapterRaises} : search_points_of_interest(o)
  \/ \E t \in SearchTimes : Elapse(t)

InitSearch ==
  /\ cache = [k \in SearchKeys |-> None]
  /\ now = 0
  /\ cleanup_task = NoTask
  /\ tasks = <<>>
  /\ lastOp = NoOp
  /\ written = [k \in Keys |-> None]
  /\ NoRequests
  /\ NoStore

SpecSearch == InitSearch /\ [][NextSearch]_vars

(* ---------------- the frontend's fetch_from_api ---------------- *)
MaxRetries == 3

\* what one request can come to: a status with or without a JSON body, a 429
\* with or without a Retry-After header, or no response at all (status 0)
NoHeader == 0 - 1

Reply(status, json, retry_after) ==
  [status |-> status, json |-> json, retry_after |-> retry_after]

Replies ==
  {Reply(200, TRUE, NoHeader), Reply(200, FALSE, NoHeader), Reply(401, TRUE, NoHeader),
   Reply(429, TRUE, NoHeader), Reply(429, TRUE, 3), Reply(500, FALSE, NoHeader),
   Reply(0, FALSE, NoHeader)}

Error(name, status) == [error |-> name, status |-> status]

\* fetch_from_api lines 74-91: the exception the try block raises, None when
\* it returns; an unsupported method raises before anything is sent
Raises(supported, reply) ==
  IF ~supported THEN Error("ValueError", 0)
  ELSE IF reply.status = 0 THEN Error("ConnectionError", 0)
  ELSE IF reply.status >= 400 THEN Error("HTTPError", reply.status)
  ELSE IF ~reply.json THEN Error("JSONDecodeError", reply.status)
  ELSE None

RECURSIVE Pow2(_)
Pow2(n) == IF n = 0 THEN 1 ELSE 2 * Pow2(n - 1)

\* what fetch_from_api did, in order: a request with its reply and the
\* exception it led to, a pass that sent nothing, a sleep with its delay
Call(call, reply, error, delay) ==
  [call |-> call, reply |-> reply, error |-> error, delay |-> delay]

\* fetch_from_api lines 52-72: the headers are prepared; without the token
\* that is required nothing is sent. With retry_count = 0 the loop is empty.
fetch_from_api(auth_required, token, supported, retry_count) ==
  /\ pc = "Idle"
  /\ response = None
  /\ frame' = [auth_required |-> auth_required, token |-> token,
               supported |-> supported, retry_count |-> retry_count,
               retry_delay |-> 1, attempt |-> 0, last_exception |-> None,
               calls |-> <<>>]
  /\ IF auth_required /\ token = ""
     THEN /\ pc' = "Raised"
          /\ response' = Error("ValueError", 0)
     ELSE IF retry_count = 0
     THEN /\ pc' = "Raised"
          /\ response' = Error("Exception", 0)
     ELSE /\ pc' = "Attempting"
          /\ UNCHANGED response
  /\ UNCHANGED <<user_itineraries, served, cacheVars, storeVars>>

\* fetch_from_api lines 97-102: a 401 response ends the loop
Breaks(sent, reply) == sent /\ reply.status = 401

\* fetch_from_api lines 104-106
RetryDelay(retry_delay, sent, reply) ==
  IF sent /\ reply.status = 429
  THEN IF reply.retry_after = NoHeader THEN retry_delay * 2 ELSE reply.retry_after
  ELSE retry_delay

ShouldSleep_always(attempt, retry_count) == TRUE

\* fetch_from_api line 118
ShouldSleep(attempt, retry_count) == attempt < retry_count - 1

\* fetch_from_api line 72 and line 122: the next pass, or the end of the loop
NextPass(f) ==
  IF f.attempt + 1 < f.retry_count
  THEN /\ pc' = "Attempting"
       /\ frame' = [f EXCEPT !.attempt = @ + 1]
       /\ UNCHANGED response
  ELSE /\ pc' = "Raised"
       /\ frame' = f
       /\ response' = f.last_exception

\* fetch_from_api lines 73-118: one pass of the loop, up to its sleep
request(reply) ==
  /\ pc = "Attempting"
  /\ LET sent == frame.supported
         e == Raises(frame.supported, reply)
         f == [frame EXCEPT !.calls =
                 Append(@, IF sent THEN Call("request", reply, e, 0)
                                   ELSE Call("none", None, e, 0))]
     IN  IF e = None
         THEN /\ frame' = f
              /\ pc' = "Returned"
              /\ response' = Ok(reply)
         ELSE IF Breaks(sent, reply)
         THEN /\ frame' = [f EXCEPT !.last_exception = e]
              /\ pc' = "Raised"
              /\ response' = e
         ELSE LET g == [f EXCEPT !.last_exception = e,
                                 !.retry_delay = RetryDelay(@, sent, reply)]
              IN  IF ShouldSleep(frame.attempt, frame.retry_count)
                  THEN /\ frame' = g
                       /\ pc' = "Sleeping"
                       /\ UNCHANGED response
                  ELSE NextPass(g)
  /\ UNCHANGED <<user_itineraries, served, cacheVars, storeVars>>

\* fetch_from_api line 119: time.sleep(retry_delay * (2 ** attempt))
sleep ==
  /\ pc = "Sleeping"
  /\ NextPass([frame EXCEPT !.calls =
                 Append(@, Call("sleep", None, None,
                                frame.retry_delay * Pow2(frame.attempt)))])
  /\ UNCHANGED <<user_itineraries, served, cacheVars, storeVars>>

NextFetch ==
  \/ \E a \in BOOLEAN, t \in {"", "token"}, m \in BOOLEAN, n \in 0..MaxRetries :
       fetch_from_api(a, t, m, n)
  \/ \E r \in Replies : request(r)
  \/ sleep

InitFetch == EmptyCache /\ NoRequests /\ NoStore

SpecFetch == InitFetch /\ [][NextFetch]_vars

(* ---------------- properties of the request and the pipeline ---------- *)
Finished == pc = "Idle" /\ response # None

Count(x, seq) == Cardinality({i \in 1..Len(seq) : seq[i] = x})

\* C4: a request whose flight and hotel candidate lists are both non-empty is
\* answered with an Itinerary, whatever the model call did and whatever the
\* POI list; a request fails only when the pipeline raised NotFound.
C4_OnlyNotFoundFails ==
  Finished =>
    /\ (frame.flights # <<>> /\ frame.hotels_data # <<>>)
         => /\ response.status_code = 200
            /\ frame.itinerary # None
            /\ response.body = frame.itinerary
    /\ response.status_code # 200
         => /\ frame.raised # None
            /\ frame.raised.status_code = 404
            /\ frame.flights = <<>> \/ frame.hotels_data = <<>>

C4_Witness ==
  /\ Finished
  /\ response.status_code = 200
  /\ frame.outcome \in ModelFailures
  /\ frame.pois = <<>>

\* C5: when the flight search or the hotel search returns no candidates, the
\* HTTP caller is answered 404 with the detail naming the route or city, and
\* the per-user store is left as it was.
C5_NotFoundAnswered404 ==
  (Finished /\ frame.raised # None /\ frame.raised.status_code = 404) =>
    /\ response.status_code = 404
    /\ response.detail = frame.raised.detail
    /\ user_itineraries = frame.store_before

\* C6: with an empty flight list the request ends in NotFound after the
\* flight lookup alone: no hotel lookup, no POI lookup, no model call; with an
\* empty hotel list it ends after the hotel lookup, with no model call.
C6_NotFoundBeforeModelCall ==
  /\ (frame.calls # <<>> /\ frame.flights = <<>>)
       => /\ frame.calls = <<"flights">>
          /\ Finished
          /\ frame.raised # None /\ frame.raised.status_code = 404
  /\ (Len(frame.calls) >= 2 /\ frame.hotels_data = <<>>)
       => /\ frame.calls = <<"flights", "hotels">>
          /\ Finished
          /\ frame.raised # None /\ frame.raised.status_code = 404

C6_Witness ==
  /\ Finished
  /\ frame.calls = <<"flights">>
  /\ frame.flights = <<>>
  /\ served = 2

PipelineOrder ==
  { <<"Idle", "CollectingInputs">>, <<"CollectingInputs", "BuildingContext">>,
    <<"CollectingInputs", "Idle">>, <<"BuildingContext", "Generating">>,
    <<"Generating", "Parsing">>, <<"Generating", "Fallback">>,
    <<"Fallback", "Parsing">>, <<"Parsing", "Done">>, <<"Done", "Idle">> }

\* C7: a request moves CollectingInputs -> BuildingContext -> Generating ->
\* Parsing -> Done, Fallback is entered only from Generating after a failed
\* model call and is followed by Parsing, no state is entered twice, and a
\* request that passed the input check reaches Done.
C7_PipelineOrder ==
  /\ [][/\ pc' # pc => <<pc, pc'>> \in PipelineOrder
        /\ pc' = "Fallback" => frame'.outcome \in ModelFailures
        /\ (pc' = pc /\ pc # "CollectingInputs") => frame' = frame]_vars
  /\ (pc = "BuildingContext") ~> (pc = "Done")

C7_Witness ==
  /\ pc = "Done"
  /\ frame.outcome \in ModelFailures
  /\ frame.itinerary # None

\* C8: the model is invoked at most once per request; a failed call is
\* followed by Fallback, never by a second call.
C8_ModelCalledAtMostOnce ==
  /\ Count("model", frame.calls) <= 1
  /\ pc \in {"Fallback", "Parsing", "Done"} => Count("model", frame.calls) = 1
  /\ frame.outcome \in ModelFailures
       => /\ pc \in {"Fallback", "Parsing", "Done", "Idle"}
          /\ frame.calls[Len(frame.calls)] = "model"

C8_Witness ==
  /\ pc = "Fallback"
  /\ frame.calls = <<"flights", "hotels", "pois", "model">>

\* the places where sub occurs in s
Occurrences(s, sub) ==
  {i \in 1..(Len(s) - Len(sub) + 1) : \A j \in 1..Len(sub) : s[i + j - 1] = sub[j]}

DayHeader == <<"#", "#", "#", " ", "Day", " ">>

PlanDays(plan) == [i \in 1..Len(plan) |-> plan[i].day]

\* where the lines below the k-th of the headers at places hs start
BodyStart(hs, k) == hs[k] + Len(DayHeader) + Len(Str(k))

\* the len tokens below the k-th header
SectionBody(text, hs, k, len) == SubSeq(text, BodyStart(hs, k), BodyStart(hs, k) + len - 1)

Sorted(S) ==
  LET RECURSIVE Sort(_)
      Sort(T) == IF T = {} THEN <<>> ELSE <<Min(T)>> \o Sort(T \ {Min(T)})
  IN  Sort(S)

\* C9: for a trip of d days the fallback text has exactly d day sections,
\* headed Day 1 .. Day d, all with the same morning/afternoon/evening lines;
\* parsing it gives the days 1..d in order, each with morning, afternoon and
\* evening set, and a total cost of 90% of the budget (2000 and 3 days: 3
\* sections, 1800.0).
C9_FallbackParses ==
  (pc \in {"Parsing", "Done"} /\ frame.outcome \in ModelFailures) =>
    LET text == frame.itinerary_text
        d == frame.travel_request.duration
        hs == Sorted(Occurrences(text, DayHeader))
        len == IF d >= 2 THEN hs[2] - BodyStart(hs, 1) ELSE 0
        plan == frame.itinerary.daily_plan
    IN  /\ d >= 1
        /\ Len(hs) = d
        /\ \A k \in 1..d :
             /\ SubSeq(text, hs[k], BodyStart(hs, k)) = DayHeader \o Str(k) \o <<"\n">>
             /\ SectionBody(text, hs, k, len) = SectionBody(text, hs, 1, len)
             /\ k < d => hs[k + 1] = BodyStart(hs, k) + len
        /\ pc = "Done" =>
             /\ PlanDays(plan) = Ascending(d)
             /\ \A i \in 1..Len(plan) :
                  /\ plan[i].morning # None /\ plan[i].morning = plan[1].morning
                  /\ plan[i].afternoon # None /\ plan[i].afternoon = plan[1].afternoon
                  /\ plan[i].evening # None /\ plan[i].evening = plan[1].evening
             /\ frame.itinerary.total_cost = NinetyPercent(frame.travel_request.budget)
             /\ (d = 3 /\ frame.travel_request.budget = 2000)
                  => Len(plan) = 3 /\ frame.itinerary.total_cost = Amount(1800, <<>>)

C9_Witness ==
  /\ pc = "Done"
  /\ frame.outcome \in ModelFailures
  /\ frame.travel_request.duration >= 10
  /\ Len(frame.itinerary.daily_plan) = frame.travel_request.duration

\* C10 as stated: the daily plan of a returned Itinerary holds exactly the
\* days 1..duration, one record per trip day, in order.
C10_PlanContiguous ==
  pc = "Done" =>
    PlanDays(frame.itinerary.daily_plan) = Ascending(frame.travel_request.duration)

\* C10 as amended: the daily plan holds at most one record per trip day, in
\* strictly increasing day order, with day values within 1..duration; it
\* holds exactly the days whose header is followed by content in the text,
\* so all of 1..duration only when every day has one.
C10_PlanOrderedWithinTrip ==
  pc = "Done" =>
    LET plan == frame.itinerary.daily_plan
        d == frame.travel_request.duration
        withContent == {n \in 1..d : day_content(frame.itinerary_text, n, d) # <<>>}
    IN  /\ \A i \in 1..Len(plan) : plan[i].day \in 1..d
        /\ \A i, j \in 1..Len(plan) : i < j => plan[i].day < plan[j].day
        /\ {plan[i].day : i \in 1..Len(plan)} = withContent
        /\ withContent = 1..d => PlanDays(plan) = Ascending(d)

C10_Witness ==
  /\ pc = "Done"
  /\ frame.outcome = "text"
  /\ Len(frame.itinerary.daily_plan) >= 2
  /\ Len(frame.itinerary.daily_plan) < frame.travel_request.duration

(* ---------------- properties of the parser ---------------- *)
\* the four header variants of day n, in the order they are declared
HeaderVariants(n) ==
  << <<"#", "#", "#", " ", "Day", " ">> \o Str(n),
     <<"#", "#", " ", "Day", " ">> \o Str(n),
     <<"Day", " ">> \o Str(n) \o <<":">>,
     <<"Day", " ">> \o Str(n) \o <<" ", "-">> >>

\* for each day of 1..d, the places in the text where one of its headers starts
HeaderPlaces(text, d) ==
  [m \in 1..d |-> UNION {Occurrences(text, HeaderVariants(m)[v]) : v \in 1..4}]

HasHeader(text, n) == \E v \in 1..4 : Occurrences(text, HeaderVariants(n)[v]) # {}

\* the first-declared variant of day n that occurs in the text
FirstVariant(text, n) ==
  HeaderVariants(n)[Min({v \in 1..4 : Occurrences(text, HeaderVariants(n)[v]) # {}})]

\* the place right after the header the parser takes for day n
ContentStart(text, n) ==
  Min(Occurrences(text, FirstVariant(text, n))) + Len(FirstVariant(text, n))

\* the place right after the content of day n that starts at first: the
\* earliest header of a day in n+1..d from there on, or the end of the text
ContentEnd(text, places, first, n, d) ==
  LET later == {i \in UNION {places[m] : m \in (n + 1)..d} : i >= first}
  IN  IF later = {} THEN Len(text) + 1 ELSE Min(later)

PlanDaySet(plan) == {plan[i].day : i \in 1..Len(plan)}

\* C11 as stated: day N of 1..duration is in the daily plan if and only if
\* the text contains one of the four header variants of N.
C11_DayIffHeader ==
  pc = "Done" =>
    \A n \in 1..frame.travel_request.duration :
      n \in PlanDaySet(frame.itinerary.daily_plan) <=> HasHeader(frame.itinerary_text, n)

\* C11 as amended: day N of 1..duration is in the daily plan if and only if
\* the text contains one of the four header variants of N and at least one
\* character lies between the header taken for N and the next later-day
\* header or the end of the text; the other days are left out, nothing is
\* raised, and the days present are in strictly increasing order, each once.
C11_DayIffHeaderWithContent ==
  /\ pc = "Done" =>
       LET plan == frame.itinerary.daily_plan
           text == frame.itinerary_text
           d == frame.travel_request.duration
           places == HeaderPlaces(text, d)
       IN  /\ \A n \in 1..d :
                n \in PlanDaySet(plan) <=>
                  /\ places[n] # {}
                  /\ LET first == ContentStart(text, n)
                     IN  first < ContentEnd(text, places, first, n, d)
           /\ \A i, j \in 1..Len(plan) : i < j => plan[i].day < plan[j].day
           /\ PlanDaySet(plan) \subseteq 1..d
           /\ frame.raised = None
  /\ (pc = "Parsing" /\ frame.outcome = "text") => frame.raised = None

C11_Witness ==
  /\ pc = "Done"
  /\ frame.outcome = "text"
  /\ frame.travel_request.duration >= 3
  /\ ~HasHeader(frame.itinerary_text, 2)
  /\ PlanDaySet(frame.itinerary.daily_plan) = 1..frame.travel_request.duration \ {2}

\* C12: the content of a day N in the plan starts right after the first
\* occurrence of the first-declared header variant of N found in the text and
\* ends right before the earliest later header, in any variant, of a day in
\* N+1..duration, or at the end of the text; the record's description is that
\* content, trimmed, and holds no header of a later day.
C12_ContentBetweenHeaders ==
  pc = "Done" =>
    LET plan == frame.itinerary.daily_plan
        text == frame.itinerary_text
        d == frame.travel_request.duration
        places == HeaderPlaces(text, d)
    IN  \A i \in 1..Len(plan) :
          LET n == plan[i].day
              first == ContentStart(text, n)
              last == ContentEnd(text, places, first, n, d) - 1
          IN  /\ plan[i].description = Strip(SubSeq(text, first, last))
              /\ \A m \in (n + 1)..d : \A at \in places[m] : at < first \/ at > last
              /\ \A m \in (n + 1)..d, v \in 1..4 :
                   Occurrences(plan[i].description, HeaderVariants(m)[v]) = {}

C12_Witness ==
  /\ pc = "Done"
  /\ frame.travel_request.duration >= 3
  /\ ~HasHeader(frame.itinerary_text, 2)
  /\ Occurrences(frame.itinerary_text, HeaderVariants(1)[1]) # {}
  /\ Occurrences(frame.itinerary_text, HeaderVariants(3)[1]) = {}
  /\ Occurrences(frame.itinerary_text, HeaderVariants(3)[3]) # {}
  /\ Len(frame.itinerary.daily_plan) >= 2
  /\ frame.itinerary.daily_plan[1].day = 1
  /\ frame.itinerary.daily_plan[2].day = 3

\* t is raw without the white space at its two ends
Trimmed(raw, t) ==
  /\ t = <<>> \/ (~IsSpace(t[1]) /\ ~IsSpace(t[Len(t)]))
  /\ \E a \in 1..(Len(raw) + 1) :
       /\ t = SubSeq(raw, a, a + Len(t) - 1)
       /\ \A i \in 1..Len(raw) : (i < a \/ i >= a + Len(t)) => IsSpace(raw[i])

\* what follows the first label: in the text, up to the end of its line
RestOfLine(text, label) ==
  LET from == Min(Occurrences(text, <<label, ":">>)) + 2
      ends == {i \in from..Len(text) : text[i] = "\n"}
  IN  SubSeq(text, from, IF ends = {} THEN Len(text) ELSE Min(ends) - 1)

PartIs(text, label, value) ==
  IF Occurrences(text, <<label, ":">>) = {}
  THEN value = None
  ELSE /\ value # None
       /\ Trimmed(RestOfLine(text, label), value.s)

\* C13: in every record of the plan, morning, afternoon and evening are each
\* the trimmed rest of the line after the first `Morning:`, `Afternoon:` or
\* `Evening:` of that day's content, and None when the content of that day
\* does not hold the label, whatever the sections of the other days hold.
C13_PartsFromOwnContent ==
  pc = "Done" =>
    LET plan == frame.itinerary.daily_plan
    IN  \A i \in 1..Len(plan) :
          /\ PartIs(plan[i].description, "Morning", plan[i].morning)
          /\ PartIs(plan[i].description, "Afternoon", plan[i].afternoon)
          /\ PartIs(plan[i].description, "Evening", plan[i].evening)

C13_Witness ==
  /\ pc = "Done"
  /\ frame.outcome = "text"
  /\ Len(frame.itinerary.daily_plan) >= 2
  /\ frame.itinerary.daily_plan[1].morning = StrVal(<<"Museum">>)
  /\ frame.itinerary.daily_plan[1].evening = None
  /\ frame.itinerary.daily_plan[2].morning = None
  /\ frame.itinerary.daily_plan[2].evening = StrVal(<<"Dinner">>)

EndsWith(text, tail) ==
  /\ Len(text) >= Len(tail)
  /\ SubSeq(text, Len(text) - Len(tail) + 1, Len(text)) = tail

HasCostMarker(text) ==
  \/ Occurrences(text, <<"Total", " ", "cost", ":">>) # {}
  \/ Occurrences(text, <<"Total", " ", "Cost", ":">>) # {}

\* C14: without `Total cost:` and `Total Cost:` in the text the total cost
\* is 90% of the budget; with a marker it is the first number that follows
\* `SGD` after the marker (after `Total cost:` when both are there), its
\* thousands separators removed: 1250.5 for `Total Cost: SGD 1,250.50`, 980
\* for `Total cost: about SGD980 or SGD 5`, 1200 when the first `SGD` has no
\* number; a marker followed by `USD 900` or by `SGD ,,` gives 90% of the
\* budget.
C14_TotalCost ==
  pc = "Done" =>
    LET text == frame.itinerary_text
        cost == frame.itinerary.total_cost
        default == NinetyPercent(frame.travel_request.budget)
    IN  /\ ~HasCostMarker(text) => cost = default
        /\ EndsWith(text, CostLines["upper"]) => cost = Amount(1250, <<5>>)
        /\ EndsWith(text, CostLines["lower"]) => cost = Amount(980, <<>>)
        /\ EndsWith(text, CostLines["both"]) => cost = Amount(650, <<2, 5>>)
        /\ EndsWith(text, CostLines["later"]) => cost = Amount(1200, <<>>)
        /\ EndsWith(text, CostLines["usd"]) => cost = default
        /\ EndsWith(text, CostLines["commas"]) => cost = default
        /\ frame.travel_request.budget = 2000 => default = Amount(1800, <<>>)
        /\ frame.travel_request.budget = 1005 => default = Amount(904, <<5>>)

C14_Witness ==
  /\ pc = "Done"
  /\ EndsWith(frame.itinerary_text, CostLines["upper"])
  /\ frame.travel_request.budget = 1005
  /\ frame.itinerary.total_cost = Amount(1250, <<5>>)

(* ---------------- properties of the cache ---------------- *)

\* C1: a get never returns a stored value once now >= expiresAt of the
\* key's entry; right after set(k, v, ttl) with ttl > 0 a get(k) returns v
\* (in its deserialised form, v itself for a scalar), and an entry set with
\* ttl <= 0 is not readable.
C1_NeverReturnedOnceExpired ==
  /\ (lastOp.op = "get" /\ lastOp.before # None /\ now >= lastOp.before.expires_at)
       => lastOp.result = None
  /\ (lastOp.op = "set" /\ lastOp.expiry > 0)
       => /\ GetResult(cache, lastOp.key, now) = _deserialize(_serialize(lastOp.value))
          /\ lastOp.value.kind = "str" => GetResult(cache, lastOp.key, now) = lastOp.value
  /\ \A k \in Keys :
       (written[k] # None /\ ~written[k].readable) => GetResult(cache, k, now) = None

C1_Witness ==
  /\ lastOp.op = "get"
  /\ lastOp.before # None
  /\ lastOp.before.expires_at = now
  /\ written[lastOp.key].readable
  /\ lastOp.result = None

\* C2: every call acts on the mapping as one unit: a get(k) returns the
\* value of the most recent set(k) when that set has not since been deleted,
\* cleared or expired, and absent otherwise, whatever sweep passes and other
\* calls came in between.
C2_GetReturnsMostRecentSet ==
  lastOp.op = "get" =>
    LET w == written[lastOp.key]
    IN  lastOp.result =
          IF w # None /\ now < w.expires_at
          THEN _deserialize(_serialize(w.value))
          ELSE None

C2_Witness ==
  /\ lastOp.op = "get"
  /\ lastOp.result # None
  /\ cleanup_task # NoTask
  /\ \E k \in Keys : k # lastOp.key /\ written[k] # None /\ cache[k] = None

\* C3: set on a key that already has an entry replaces the value and the
\* expiry time (now + the new ttl, also when that is earlier than the old
\* expiry); a get after the second set sees the second value only.
C3_SetOverwrites ==
  (lastOp.op = "set" /\ lastOp.before # None) =>
    /\ cache[lastOp.key] = Entry(_serialize(lastOp.value), now + lastOp.expiry)
    /\ GetResult(cache, lastOp.key, now) =
         IF lastOp.expiry > 0 THEN _deserialize(_serialize(lastOp.value)) ELSE None

C3_Witness ==
  /\ lastOp.op = "set"
  /\ lastOp.before # None
  /\ lastOp.before.other_value
  /\ lastOp.before.later
  /\ lastOp.expiry > 0

\* the entry of key k is in the mapping c and has expired at time t
ExpiredIn(c, k, t) == c[k] # None /\ c[k].expires_at <= t

\* C15: a sweep pass that completes removes exactly the entries with
\* expiresAt <= now at the time of the pass and leaves every other entry as
\* it was, key, value and expiry.
C15_SweepRemovesExactlyExpired ==
  [][lastOp'.op = "sweep" =>
       /\ now' = now
       /\ \A k \in Keys :
            cache'[k] = IF ExpiredIn(cache, k, now) THEN None ELSE cache[k]
       /\ lastOp'.removed = {k \in Keys : ExpiredIn(cache, k, now)}]_vars

C15_Witness ==
  /\ lastOp.op = "sweep"
  /\ \E k \in lastOp.removed : written[k] # None /\ written[k].expires_at = now
  /\ \E k \in Keys \ lastOp.removed :
       /\ cache[k] # None
       /\ cache[k].expires_at = now + 1

\* C20: a get on an expired entry removes that entry and nothing else, a
\* get on a live entry leaves the mapping unchanged; a sweep pass right
\* after a get that evicted an entry does not remove or count that key again
\* and leaves it absent; a sweep pass right after a sweep pass, with no
\* clock advance and no write between them, removes nothing.
C20_LazyEvictionSweepIdempotent ==
  /\ [][lastOp'.op = "get" =>
          \A k \in Keys :
            cache'[k] = IF k = lastOp'.key /\ ExpiredIn(cache, k, now)
                        THEN None ELSE cache[k]]_vars
  /\ [][(/\ lastOp.op = "get"
          /\ lastOp.before # None
          /\ lastOp.result = None
          /\ lastOp'.op = "sweep")
         => /\ lastOp.key \notin lastOp'.removed
            /\ cache[lastOp.key] = None
            /\ cache'[lastOp.key] = None]_vars
  /\ [][(lastOp.op = "sweep" /\ lastOp'.op = "sweep")
         => /\ lastOp'.removed = {}
            /\ cache' = cache]_vars

C20_Witness ==
  /\ lastOp.op = "get"
  /\ lastOp.before # None
  /\ lastOp.before.expires_at < now
  /\ lastOp.result = None
  /\ cache[lastOp.key] = None
  /\ cleanup_task # NoTask
  /\ tasks[cleanup_task].state = "sleeping"
  /\ \E k \in Keys : k # lastOp.key /\ ExpiredIn(cache, k, now)

(* ---------------- properties of the sweep task ---------------- *)
\* the sweep has been started and no stop() has been called on it since
SweepOn == cleanup_task # NoTask /\ tasks[cleanup_task].waiters = 0

\* C16: while the sweep has been started and not stopped, an entry whose
\* expiry time has passed is eventually removed from the mapping (or
\* replaced by a new set) although no get is ever issued.
C16_ExpiredEventuallySwept ==
  \A k \in Keys :
    (ExpiredIn(cache, k, now) /\ SweepOn) ~> (~ExpiredIn(cache, k, now) \/ ~SweepOn)

C16_Witness ==
  /\ lastOp.op = "sweep"
  /\ lastOp.removed = Keys
  /\ SweepOn
  /\ lastOp.task = cleanup_task
  /\ now = MaxNow

\* C17: a sweep pass that raises leaves its task alive and asleep for the
\* next interval, an expired entry the failed pass left behind is removed by
\* a later pass while the sweep stays on, and a task ends only after it was
\* cancelled.
C17_ErrorDoesNotHaltSweep ==
  /\ [][lastOp'.op = "sweep_error" =>
          /\ tasks'[lastOp'.task].state = "sleeping"
          /\ cleanup_task' = cleanup_task]_vars
  /\ [][\A t \in 1..Len(tasks) :
          (tasks[t].state # "done" /\ tasks'[t].state = "done")
            => tasks[t].state = "cancelling"]_vars
  /\ \A k \in Keys :
       (lastOp.op = "sweep_error" /\ ExpiredIn(cache, k, now) /\ SweepOn)
         ~> (~ExpiredIn(cache, k, now) \/ ~SweepOn)

C17_Witness ==
  /\ lastOp.op = "sweep_error"
  /\ tasks[lastOp.task].state = "sleeping"
  /\ lastOp.task = cleanup_task
  /\ \E k \in Keys : ExpiredIn(cache, k, now)

\* C18: a start() while the handle holds a task creates no task and leaves
\* the handle as it is; as long as no task has been cancelled by a stop(),
\* there is at most one sweep task, and it is the one the handle holds.
C18_SecondStartNoOp ==
  /\ [][lastOp'.op = "start" =>
          IF cleanup_task # NoTask
          THEN /\ tasks' = tasks
               /\ cleanup_task' = cleanup_task
               /\ cache' = cache
               /\ ~lastOp'.created
          ELSE /\ Len(tasks') = Len(tasks) + 1
               /\ cleanup_task' = Len(tasks')
               /\ cache' = cache]_vars
  /\ []((\A t \in 1..Len(tasks) : tasks[t] = [state |-> "sleeping", waiters |-> 0])
         => /\ Len(tasks) <= 1
            /\ Len(tasks) = 1 => cleanup_task = 1)

C18_Witness ==
  /\ lastOp = [op |-> "start", created |-> FALSE]
  /\ Len(tasks) = 1
  /\ tasks[1] = [state |-> "sleeping", waiters |-> 0]
  /\ cleanup_task = 1

Stored(username, kinds) ==
  LET Mine(e) == e.account = username /\ e.kind \in kinds /\ e.status_code = 200
      done == SelectSeq(log, Mine)
  IN  [i \in 1..Len(done) |-> done[i].item]

\* C21: the itineraries that create-itinerary requests put in an account's
\* list are exactly those of the account's successful create-itinerary
\* requests, one each, in the order the requests completed, whatever the
\* interleaving of the requests in flight; a failed request adds nothing.
C21_OneEntryPerSuccessfulCreate ==
  \A a \in accounts :
    LET Created(x) == x.request_id # 0
    IN  SelectSeq(StoreGet(user_itineraries, a.email), Created)
          = Stored(a.username, {"create"})

\* two requests of one account overlapped and completed against the order of
\* their arrival, a third one failed
C21_Witness ==
  \E i, j, k \in 1..Len(log) :
    /\ i < j
    /\ log[i].id > log[j].id
    /\ log[i].kind = "create" /\ log[i].status_code = 200
    /\ log[j].kind = "create" /\ log[j].status_code = 200
    /\ log[i].account = log[j].account
    /\ log[k].kind = "create" /\ log[k].status_code = 500
    /\ Len(StoreGet(user_itineraries, "")) = 2

\* a generation call is under way
InGeneration ==
  pc \in {"CollectingInputs", "BuildingContext", "Generating", "Fallback", "Parsing"}

\* C22: no step of a generation call (from the lookups to the parsed
\* Itinerary, or to the exception it raises) changes the cache, which a read
\* of the expired entry would, or the per-user store.
C22_GenerationLeavesCacheAndStore ==
  [][InGeneration => (cache' = cache /\ user_itineraries' = user_itineraries)]_vars

\* a generation call has returned its Itinerary after a failed model call,
\* and the cache still holds its live and its expired entry
C22_Witness ==
  /\ pc = "Done"
  /\ frame.itinerary # None
  /\ frame.outcome \in ModelFailures
  /\ cache["k1"] # None /\ cache["k1"].expires_at > now
  /\ cache["k2"] # None /\ cache["k2"].expires_at <= now

(* ---------------- properties of the trip's duration ---------------- *)
\* C23: the duration of a request is at least 1: the number of dates from
\* the departure to the return date, both included, and 1 when the return
\* date lies before the departure date; a plan record of day N is dated
\* N - 1 days after the departure date, so the record of the last day of a
\* trip is dated the return date.
C23_DurationAndDates ==
  LET r == frame.travel_request
      plan == frame.itinerary.daily_plan
  IN  /\ r.duration >= 1
      /\ r.duration = IF r.return_date < r.depart_date
                      THEN 1 ELSE Cardinality(r.depart_date .. r.return_date)
      /\ frame.itinerary # None =>
           \A i \in 1..Len(plan) :
             /\ (plan[i].date - r.depart_date) + 1 = plan[i].day
             /\ (plan[i].day = r.duration /\ r.return_date >= r.depart_date)
                  => plan[i].date = r.return_date

\* a request whose return date lies before its departure date was planned:
\* its one day is dated the departure date
C23_Witness ==
  /\ pc = "Done"
  /\ frame.travel_request.return_date < frame.travel_request.depart_date
  /\ frame.travel_request.duration = 1
  /\ Len(frame.itinerary.daily_plan) = 1
  /\ frame.itinerary.daily_plan[1].date = frame.travel_request.depart_date

(* ---------------- properties of delete and clear ---------------- *)
\* C24: delete(k) leaves no entry under k, so that a get(k) at any time
\* returns absent, also when the entry removed was still live, and leaves
\* every other key as it was; after clear() a get of any key returns absent;
\* a delete or a get of a key that has no entry changes nothing, the get
\* returning absent.
C24_RemovalUnconditional ==
  [][/\ lastOp'.op = "delete" =>
          /\ \A t \in 0..MaxNow : GetResult(cache', lastOp'.key, t) = None
          /\ \A k \in Keys \ {lastOp'.key} : cache'[k] = cache[k]
          /\ lastOp'.live = (GetResult(cache, lastOp'.key, now) # None)
     /\ lastOp'.op = "clear" =>
          \A k \in Keys, t \in 0..MaxNow : GetResult(cache', k, t) = None
     /\ (lastOp'.op \in {"delete", "get"} /\ cache[lastOp'.key] = None) =>
          /\ cache' = cache
          /\ lastOp'.op = "get" => lastOp'.result = None
    ]_vars

\* a delete has removed an entry that a get would still have returned, and
\* the other key keeps its live entry
C24_Witness ==
  /\ lastOp.op = "delete"
  /\ lastOp.live
  /\ cache[lastOp.key] = None
  /\ \E k \in Keys \ {lastOp.key} : cache[k] # None /\ cache[k].expires_at > now

(* ---------------- properties of the search handlers ---------------- *)
\* the expiry delay each handler stores with
SearchExpiry(what) == IF what = "points of interest" THEN 86400 ELSE 3600

\* C25: a search request that finds a live entry under its key, a stored
\* empty list included, returns the value stored and calls no adapter;
\* otherwise it calls the adapter once and stores what it returns under the
\* key, for 3600 s (flights, hotels) or 86400 s (points of interest); when the
\* adapter raises the request fails and no entry is written.
C25_CacheAside ==
  [][lastOp'.op = "search" =>
       LET key == lastOp'.key
           live == cache[key] # None /\ cache[key].expires_at > now
       IN  /\ live =>
                /\ lastOp'.adapter_calls = 0
                /\ response' = Ok(_deserialize(cache[key].value))
                /\ cache' = cache
           /\ ~live =>
                /\ lastOp'.adapter_calls = 1
                /\ lastOp'.outcome # AdapterRaises =>
                     /\ response' = Ok(lastOp'.outcome)
                     /\ cache'[key] = Entry(_serialize(lastOp'.outcome),
                                            now + SearchExpiry(lastOp'.what))
                /\ lastOp'.outcome = AdapterRaises =>
                     /\ response'.status_code = 500
                     /\ cache'[key] = None
           /\ \A k \in SearchKeys \ {key} : cache'[k] = cache[k]
    ]_vars

(* ---------------- properties of fetch_from_api ---------------- *)
\* the delay the passes up to the i-th call have left in retry_delay
RECURSIVE BaseDelay(_, _)
BaseDelay(calls, i) ==
  IF i = 0 THEN 1
  ELSE IF calls[i].call = "request" /\ calls[i].reply.status = 429
  THEN IF calls[i].reply.retry_after = NoHeader
       THEN 2 * BaseDelay(calls, i - 1) ELSE calls[i].reply.retry_after
  ELSE BaseDelay(calls, i - 1)

SaveAnswered ==
  /\ Len(log') = Len(log) + 1
  /\ log'[Len(log')].kind = "save"
  /\ log'[Len(log')].status_code # 401

\* C27: a save_itinerary request whose itinerary has no destination is
\* answered 400 and leaves the store as it was; any other is answered with
\* the itinerary, which is appended once to the list of the caller.
C27_SaveRejectsWith400 ==
  [][SaveAnswered =>
       LET e == log'[Len(log')]
           email == Row(accounts, e.account).email
       IN  IF e.item.travel_request.destination = ""
           THEN /\ response'.status_code = 400
                /\ user_itineraries' = user_itineraries
           ELSE /\ response' = Ok(e.item)
                /\ StoreGet(user_itineraries', email)
                     = Append(StoreGet(user_itineraries, email), e.item)
                /\ \A k \in DOMAIN user_itineraries \ {email} :
                     user_itineraries'[k] = user_itineraries[k]
    ]_vars

(* ---------------- properties of start and stop together ---------------- *)
\* a sweep task is alive until it has ended
Alive(t) == tasks[t].state # "done"

\* C28: at most one sweep task is alive at any time, and whenever one is
\* alive the service's task handle refers to it: no sweep task that still
\* runs is left without a handle.
C28_NoOrphanSweepTask ==
  /\ Cardinality({t \in 1..Len(tasks) : Alive(t)}) <= 1
  /\ \A t \in 1..Len(tasks) : Alive(t) => cleanup_task = t

(* ---------------- properties of the header search ---------------- *)
\* a header of day m, in one of the four variants, stands at this place of
\* the text: the variant occurs there and the number of the day ends with it
HeaderOfDay(text, at, m) ==
  \E v \in 1..4 :
    /\ at \in Occurrences(text, HeaderVariants(m)[v])
    /\ LET after == at + Len(HeaderVariants(m)[v])
       IN  after > Len(text) \/ ~IsDigit(text[after])

\* the place of the match the parser takes as the header of day n
HeaderTaken(text, n) == Min(Occurrences(text, FirstVariant(text, n)))

\* C29: the header search for day N matches only headers of day N: for
\* every day N of the plan, at any duration, the place the parser takes as
\* the header of N is not the header of a different day M of the trip, so
\* `### Day 10` is never taken for `### Day 1`.
C29_HeaderOfOwnDayOnly ==
  pc = "Done" =>
    LET plan == frame.itinerary.daily_plan
        text == frame.itinerary_text
        d == frame.travel_request.duration
    IN  \A i \in 1..Len(plan) :
          \A m \in (1..d) \ {plan[i].day} :
            ~HeaderOfDay(text, HeaderTaken(text, plan[i].day), m)

(* ---------------- properties of the store across accounts ---------------- *)
\* the last request answered
LastAnswered == log[Len(log)]

====
